---------------------------- MODULE Spec2Model ----------------------------
(***************************************************************************)
(* The Editor component of ClipsCreator (src/app/editor/editor.ts): one    *)
(* video track and N audio tracks kept in step by listeners on the video   *)
(* element, and a timeline derived from the tracks' durations.             *)
(*                                                                         *)
(* Times are whole seconds.  A JavaScript number is an integer >= 0, or    *)
(* NaN; an array slot is a value or Undefined (a hole, or a read past the  *)
(* end).  The media elements follow the HTML media element rules for       *)
(* play(), pause(), currentTime, src, ended and the events they queue.     *)
(* The view is assumed to contain the <video> element from the first       *)
(* render on, so that videoElement is set when ngAfterViewInit runs.       *)
(*                                                                         *)
(* Left out: the canvases and what is drawn on them, the video's           *)
(* placeholder waveform, the volume controls and the object URLs; nothing  *)
(* modelled here reads them.                                               *)
(***************************************************************************)
EXTENDS Integers, Sequences, FiniteSets, TLC

(* ------------------------------ bounds -------------------------------- *)

\* At most this many tasks of the video element queued and not yet run.
MaxPending == 2
\* At most this many completions outstanding on replaced audio elements.
MaxDetached == 1

\* The files the user can pick, what one selection of audio files can be,
\* and the times the scrubber can be set to.
VideoFiles == {"v1"}
AudioSelections == {<< >>, <<"a1">>, <<"a2">>, <<"a1", "a2">>}
SingleSelections == {<< >>, <<"a1">>, <<"a2">>}
SeekTimes == {50}
ManySeekTimes == {30, 50}

\* The duration the browser reports for a file once its metadata is loaded.
FileDuration(f) ==
  CASE f = "v1" -> 42
    [] f = "a1" -> 40
    [] f = "a2" -> 90

(* ------------------------- JavaScript values -------------------------- *)

NaN == -1
Undefined == -2
None == "none"

\* x || d
OrElse(x, d) == IF x = NaN \/ x = Undefined \/ x = 0 THEN d ELSE x

\* a <= b and a > b on numbers: false when either side is NaN
Leq(a, b) == a # NaN /\ b # NaN /\ a <= b
Gt(a, b) == a # NaN /\ b # NaN /\ a > b

SetMax(S) == CHOOSE m \in S : \A x \in S : x <= m
SetMin(S) == CHOOSE m \in S : \A x \in S : m <= x
Range(s) == {s[k] : k \in 1..Len(s)}

\* Math.max(...arr, floor): NaN as soon as one argument is NaN or undefined
MathMax(arr, floor) ==
  IF \E k \in 1..Len(arr) : arr[k] \in {NaN, Undefined}
    THEN NaN
    ELSE SetMax(Range(arr) \cup {floor})

\* arr[k], 1-based: Undefined past the end
At(arr, k) == IF k \in 1..Len(arr) THEN arr[k] ELSE Undefined

\* arr[k] = v, 1-based: an assignment past the end leaves holes
SetAt(arr, k, v) ==
  IF k <= Len(arr)
    THEN [arr EXCEPT ![k] = v]
    ELSE arr \o [j \in 1..(k - Len(arr) - 1) |-> Undefined] \o <<v>>

\* arr.splice(k, 1), 1-based: nothing is removed past the end
Splice(arr, k) ==
  IF k \in 1..Len(arr)
    THEN SubSeq(arr, 1, k - 1) \o SubSeq(arr, k + 1, Len(arr))
    ELSE arr

\* new Array(n).fill(v)
Fill(n, v) == [j \in 1..n |-> v]

(* ------------------------------- state -------------------------------- *)

VARIABLES
  videoElement,      \* TRUE once the view holds the <video> element
  selectedVideo,     \* None or a video file
  selectedAudios,    \* the audio files, in track order
  audioElements,     \* one audio element per track: file, loaded, pos, paused, muted
  detached,          \* completions still to come from replaced audio elements
  mutedTracks,
  audioEnded,
  trackDurations,    \* [video, audio 1, audio 2, ...]
  timelineDuration,
  timeMarkers,
  playheadPosition,  \* a fraction <<num, den>>; den = 0 is NaN
  isPlaying,
  currentTime,
  video,             \* the <video> element: file, loaded, pos, paused, dsp
  videoEvents,       \* the video element's queued tasks, oldest first
  listening,         \* synchronizePlayback has added its listeners
  animationFrameId,  \* TRUE while a redraw callback is requested
  last,              \* the handler that ran last: op, arg, rej
  destroyed,         \* ngOnDestroy has run
  audioContexts,     \* the AudioContexts of the array: current, open
  audioWaveformData, \* one waveform per track, << >> where none is stored
  waveformJobs,      \* where generateAudioWaveform stands, per audio element
  timeInput,         \* a number of seconds handed to formatTime
  timeText           \* what formatTime made of it, "" before it has run

vars == <<videoElement, selectedVideo, selectedAudios, audioElements, detached,
          mutedTracks, audioEnded, trackDurations, timelineDuration,
          timeMarkers, playheadPosition, isPlaying, currentTime, video,
          videoEvents, listening, animationFrameId, last, destroyed,
          audioContexts, audioWaveformData, waveformJobs, timeInput, timeText>>

\* What the waveform extraction owns, and what formatTime is tried on
resources == <<audioContexts, audioWaveformData, waveformJobs>>
scratch == <<timeInput, timeText>>

\* `last` tells the listeners of the video and removeAudioTrack apart from
\* every other step.  Its arg is the track removed (numbered from 1), the
\* video's time for seeked and timeupdate, and for play, pause and ended the
\* number of tracks the listener found ended, playing, or away from a
\* paused 0.
Observed == {"removeAudioTrack", "play", "pause", "ended", "seeked", "timeupdate"}
Did(op, arg) ==
  IF op \in Observed
    THEN [op |-> op, arg |-> arg, rej |-> {}]
    ELSE [op |-> "other", arg |-> 0, rej |-> {}]

(* --------------------------- media elements --------------------------- *)

\* element.duration: NaN until the metadata is loaded
Duration(e) == IF e.loaded THEN FileDuration(e.file) ELSE NaN

\* element.ended: the position is the end of a loaded resource
Ended(e) == e.loaded /\ e.pos = FileDuration(e.file)

\* new Audio(url): nothing loaded, at 0, paused, not muted
NewAudio(f) ==
  [file |-> f, loaded |-> FALSE, pos |-> 0, paused |-> TRUE, muted |-> FALSE]

\* element.currentTime = t: a seek, clamped to the resource, once loaded
SetCurrentTime(e, t) ==
  IF e.loaded
    THEN [e EXCEPT !.pos = IF t > FileDuration(e.file) THEN FileDuration(e.file) ELSE t]
    ELSE e

\* element.pause()
Pause(e) == [e EXCEPT !.paused = TRUE]

\* element.play(), when the browser allows it: an ended element starts over
Play(e) == [e EXCEPT !.paused = FALSE, !.pos = IF Ended(e) THEN 0 ELSE e.pos]

\* video.currentTime: the default playback start position, when one is set
VideoCurrentTime == IF video.dsp # 0 THEN video.dsp ELSE video.pos

\* Where a playing element is seen next: at one of PlayPoints, or at its end
PlayPoints == {}
Advance(e) ==
  SetMin({t \in PlayPoints \cup {FileDuration(e.file)} :
            t > e.pos /\ t <= FileDuration(e.file)})

(* ------------------------------ timeline ------------------------------ *)

MinTimeline == 60
markerCount == 12
MinInterval == 5

\* a % n, with the sign of a
Rem(a, n) == IF a < 0 THEN 0 - ((0 - a) % n) ELSE a % n

\* n.toString().padStart(2, '0'): "-5" is two characters long already
Pad2(n) == IF 0 <= n /\ n < 10 THEN "0" \o ToString(n) ELSE ToString(n)

formatTime(seconds) ==
  IF seconds = 0 \/ seconds = NaN
    THEN "0:00"
    ELSE ToString(seconds \div 60) \o ":" \o Pad2(Rem(seconds, 60))

\* the markers of a timeline of d seconds
Markers(d) ==
  IF d = NaN
    THEN << >>
    ELSE LET interval == SetMax({MinInterval, (d + markerCount - 1) \div markerCount})
         IN  [k \in 1..((d \div interval) + 1) |-> formatTime((k - 1) * interval)]

updateMaxTimelineDuration(durations) == MathMax(durations, MinTimeline)

\* Math.min(t / d * 100, 100)
Percent(t, d) ==
  IF d = NaN THEN <<0, 0>>
  ELSE IF t * 100 >= 100 * d THEN <<100, 1>>
  ELSE <<t * 100, d>>

(* ------------------------------- Init --------------------------------- *)

\* The fields of a new Editor, and the browser with nothing loaded
Constructed ==
  /\ videoElement = FALSE
  /\ selectedVideo = None
  /\ selectedAudios = << >>
  /\ audioElements = << >>
  /\ detached = {}
  /\ mutedTracks = << >>
  /\ audioEnded = << >>
  /\ trackDurations = << >>
  /\ timelineDuration = 0
  /\ timeMarkers = << >>
  /\ playheadPosition = <<0, 1>>
  /\ isPlaying = FALSE
  /\ currentTime = 0
  /\ video = [file |-> None, loaded |-> FALSE, pos |-> 0, paused |-> TRUE, dsp |-> 0]
  /\ videoEvents = << >>
  /\ listening = FALSE
  /\ animationFrameId = FALSE
  /\ last = Did("new", 0)
  /\ destroyed = FALSE
  /\ audioContexts = << >>
  /\ audioWaveformData = << >>
  /\ waveformJobs = << >>

Init == Constructed /\ timeInput = 0 /\ timeText = ""

\* for (i = 0; i <= 60; i += 5)
initializeTimeline == [k \in 1..((60 \div 5) + 1) |-> formatTime((k - 1) * 5)]

ngAfterViewInit ==
  /\ ~videoElement
  /\ videoElement' = TRUE
  /\ timelineDuration' = 60
  /\ timeMarkers' = initializeTimeline
  /\ last' = Did("ngAfterViewInit", 0)
  /\ UNCHANGED <<destroyed, resources, scratch,
                 selectedVideo, selectedAudios, audioElements, detached,
                 mutedTracks, audioEnded, trackDurations, playheadPosition,
                 isPlaying, currentTime, video, videoEvents, listening,
                 animationFrameId>>

(* ----------------------- selecting and removing ----------------------- *)

\* synchronizePlayback, called with `sel` as selectedVideo: the listeners
\* are added and the redraw loop is restarted.  Adding the same listeners a
\* second time changes nothing they do: each of them, run twice in a row,
\* leaves the state its first run left.
synchronizePlayback(sel) ==
  IF videoElement /\ sel # None
    THEN listening' = TRUE /\ animationFrameId' = TRUE
    ELSE UNCHANGED <<listening, animationFrameId>>

\* What a replaced audio element can still deliver: its loadedmetadata.
Leftover(elems) ==
  {[index |-> k, file |-> elems[k].file, ev |-> "loadedmetadata"] :
     k \in {j \in 1..Len(elems) : ~elems[j].loaded}}

\* What the generateAudioWaveform calls of replaced elements can still
\* deliver: the step each of them is waiting for.
LeftoverJobs(elems, jobs) ==
  {[index |-> k, file |-> elems[k].file, ev |-> jobs[k]] :
     k \in {j \in 1..Len(elems) : jobs[j] # "done"}}

\* setupAudioPlayback, for the files `files`.  Every context of the array
\* is closed and the array emptied.  The replaced elements' loadedmetadata
\* is still to arrive; their waveform extractions either complete later,
\* all of them, or are not heard of again.
setupAudioPlayback(files) ==
  /\ audioElements' = [k \in 1..Len(files) |-> NewAudio(files[k])]
  /\ audioContexts' = << >>
  /\ audioWaveformData' = << >>
  /\ waveformJobs' = [k \in 1..Len(files) |-> "arrayBuffer"]
  /\ synchronizePlayback(selectedVideo)
  /\ \E late \in {{}, LeftoverJobs(audioElements, waveformJobs)} :
       detached' = detached \cup Leftover(audioElements) \cup late

\* video.src = url: the element is reset and its queued events are dropped
LoadVideo(f) ==
  [file |-> f, loaded |-> FALSE, pos |-> 0, paused |-> TRUE, dsp |-> video.dsp]

onVideoSelected(f) ==
  /\ videoElement
  /\ selectedVideo' = f
  /\ trackDurations' = <<0>>
  /\ video' = LoadVideo(f)
  /\ videoEvents' = << >>
  /\ last' = Did("onVideoSelected", 0)
  /\ UNCHANGED <<destroyed, resources, scratch, videoElement, selectedAudios, audioElements, detached,
                 mutedTracks, audioEnded, timelineDuration, timeMarkers,
                 playheadPosition, isPlaying, currentTime, listening,
                 animationFrameId>>

onAudioSelected(files) ==
  /\ videoElement
  /\ selectedAudios' = files
  /\ mutedTracks' = Fill(Len(files), FALSE)
  /\ audioEnded' = Fill(Len(files), FALSE)
  /\ trackDurations' = <<OrElse(At(trackDurations, 1), 0)>> \o Fill(Len(files), 0)
  /\ last' = Did("onAudioSelected", Len(files))
  /\ UNCHANGED <<destroyed, scratch, videoElement, selectedVideo,
                 timelineDuration, timeMarkers, playheadPosition, isPlaying,
                 currentTime, video, videoEvents>>
  /\ setupAudioPlayback(files)

\* A slip: the slot of the track's own index, one short of its duration's
DurationSlotOfIndex(i) == i

\* The slot of trackDurations that removeAudioTrack drops for track i (1-based)
DurationSlot(i) == i + 1

\* removeAudioTrack(i - 1): tracks are numbered from 1 here.  The splice of
\* audioWaveformData is undone by setupAudioPlayback, which empties it and
\* runs before the timeline is recomputed from trackDurations.
removeAudioTrack(i) ==
  /\ videoElement
  /\ i \in 1..Len(selectedAudios)
  /\ selectedAudios' = Splice(selectedAudios, i)
  /\ mutedTracks' = Splice(mutedTracks, i)
  /\ audioEnded' = Splice(audioEnded, i)
  /\ trackDurations' = Splice(trackDurations, DurationSlot(i))
  /\ timelineDuration' = updateMaxTimelineDuration(trackDurations')
  /\ timeMarkers' = Markers(timelineDuration')
  /\ last' = Did("removeAudioTrack", i)
  /\ UNCHANGED <<destroyed, scratch, videoElement, selectedVideo,
                 playheadPosition, isPlaying, currentTime, video, videoEvents>>
  /\ setupAudioPlayback(selectedAudios')

toggleAudioMute(i) ==
  /\ videoElement
  /\ i \in 1..Len(selectedAudios)
  /\ mutedTracks' = SetAt(mutedTracks, i, ~(At(mutedTracks, i) = TRUE))
  /\ audioElements' =
       IF i \in 1..Len(audioElements)
         THEN [audioElements EXCEPT ![i].muted = mutedTracks'[i]]
         ELSE audioElements
  /\ last' = Did("toggleAudioMute", i)
  /\ UNCHANGED <<destroyed, resources, scratch, videoElement, selectedVideo, selectedAudios, detached,
                 audioEnded, trackDurations, timelineDuration, timeMarkers,
                 playheadPosition, isPlaying, currentTime, video, videoEvents,
                 listening, animationFrameId>>

(* --------------------------- metadata loads --------------------------- *)

\* video.onloadedmetadata, as the metadata of the selected video arrives
VideoLoadedMetadata ==
  /\ video.file # None
  /\ ~video.loaded
  /\ LET jump == video.dsp # 0
         v == [video EXCEPT !.loaded = TRUE, !.dsp = 0]
     IN  /\ video' = IF jump THEN SetCurrentTime(v, video.dsp) ELSE v
         /\ videoEvents' = IF jump THEN Append(videoEvents, "seeked") ELSE videoEvents
  /\ trackDurations' = SetAt(trackDurations, 1, OrElse(FileDuration(video.file), 60))
  /\ timelineDuration' = updateMaxTimelineDuration(trackDurations')
  /\ timeMarkers' = Markers(timelineDuration')
  /\ synchronizePlayback(selectedVideo)
  /\ last' = Did("videoLoadedMetadata", 0)
  /\ UNCHANGED <<destroyed, resources, scratch, videoElement, selectedVideo, selectedAudios, audioElements,
                 detached, mutedTracks, audioEnded, playheadPosition, isPlaying,
                 currentTime>>

\* The loadedmetadata listener of the audio element created with `index`
\* (0-based in the code, 1-based here) for a file of duration `d`
onAudioMetadata(index, d) ==
  /\ trackDurations' = SetAt(trackDurations, index + 1, OrElse(d, 0))
  /\ timelineDuration' = updateMaxTimelineDuration(trackDurations')
  /\ timeMarkers' = Markers(timelineDuration')

AudioLoadedMetadata(k) ==
  /\ k \in 1..Len(audioElements)
  /\ ~audioElements[k].loaded
  /\ audioElements' = [audioElements EXCEPT ![k].loaded = TRUE]
  /\ onAudioMetadata(k, FileDuration(audioElements[k].file))
  /\ last' = Did("audioLoadedMetadata", k)
  /\ UNCHANGED <<destroyed, resources, scratch, videoElement, selectedVideo, selectedAudios, detached,
                 mutedTracks, audioEnded, playheadPosition, isPlaying,
                 currentTime, video, videoEvents, listening, animationFrameId>>

\* The same listener, on an element that has been replaced since
StaleLoadedMetadata(d) ==
  /\ d \in detached
  /\ d.ev = "loadedmetadata"
  /\ detached' = detached \ {d}
  /\ onAudioMetadata(d.index, FileDuration(d.file))
  /\ last' = Did("staleLoadedMetadata", d.index)
  /\ UNCHANGED <<destroyed, resources, scratch, videoElement, selectedVideo, selectedAudios, audioElements,
                 mutedTracks, audioEnded, playheadPosition, isPlaying,
                 currentTime, video, videoEvents, listening, animationFrameId>>

(* ------------------------- waveform extraction ------------------------ *)

samples == 200

\* The decoded first channel: n samples, each -1, 0 or 1 of full scale
ChannelData(n) == [j \in 1..n |-> (j % 3) - 1]

\* The sample counts a decoded file can have, and the tenths
\* Math.random() * 0.8 + 0.2 can come to
SampleCounts == {150, 200, 450}
PlaceholderLevels == {2, 9}

\* The sum of |channelData[start + j]| over one block
BlockSum(channelData, start, blockSize) ==
  LET Sum[j \in 0..blockSize] ==
        IF j = 0 THEN 0
        ELSE Sum[j - 1] + (IF channelData[start + j] < 0
                             THEN 0 - channelData[start + j]
                             ELSE channelData[start + j])
  IN  Sum[blockSize]

\* The downsampling loop: each value is the fraction <<sum, blockSize>>,
\* and 0 / 0 is NaN
Downsample(channelData) ==
  LET blockSize == Len(channelData) \div samples
  IN  [i \in 1..samples |->
         <<BlockSum(channelData, blockSize * (i - 1), blockSize), blockSize>>]

\* Array.from({ length: 200 }, () => Math.random() * 0.8 + 0.2)
Placeholder(level) == [i \in 1..200 |-> <<level, 10>>]

\* What a finished extraction stores: the waveform of a decoded file, or
\* the placeholder when the decode was rejected
Waveforms ==
  {Downsample(ChannelData(n)) : n \in SampleCounts}
    \cup {Placeholder(level) : level \in PlaceholderLevels}

\* this.audioWaveformData[index] = w, 1-based
StoreWaveform(arr, k, w) ==
  IF k <= Len(arr)
    THEN [arr EXCEPT ![k] = w]
    ELSE arr \o [j \in 1..(k - Len(arr) - 1) |-> << >>] \o <<w>>

\* new AudioContext(), pushed on the array; `current`: made for an element
\* of the audio set as it is, in an editor that is not destroyed
NewContext(current) == [current |-> current, open |-> TRUE]

\* generateAudioWaveform of audio element k, once arrayBuffer() resolves
ArrayBufferRead(k) ==
  /\ k \in 1..Len(waveformJobs)
  /\ waveformJobs[k] = "arrayBuffer"
  /\ waveformJobs' = [waveformJobs EXCEPT ![k] = "decodeAudioData"]
  /\ audioContexts' = Append(audioContexts, NewContext(~destroyed))
  /\ last' = Did("arrayBuffer", k)
  /\ UNCHANGED <<destroyed, audioWaveformData, scratch, videoElement,
                 selectedVideo, selectedAudios, audioElements, detached,
                 mutedTracks, audioEnded, trackDurations, timelineDuration,
                 timeMarkers, playheadPosition, isPlaying, currentTime, video,
                 videoEvents, listening, animationFrameId>>

\* The same call, once decodeAudioData settles
Decoded(k) ==
  /\ k \in 1..Len(waveformJobs)
  /\ waveformJobs[k] = "decodeAudioData"
  /\ waveformJobs' = [waveformJobs EXCEPT ![k] = "done"]
  /\ \E w \in Waveforms : audioWaveformData' = StoreWaveform(audioWaveformData, k, w)
  /\ last' = Did("decodeAudioData", k)
  /\ UNCHANGED <<destroyed, audioContexts, scratch, videoElement,
                 selectedVideo, selectedAudios, audioElements, detached,
                 mutedTracks, audioEnded, trackDurations, timelineDuration,
                 timeMarkers, playheadPosition, isPlaying, currentTime, video,
                 videoEvents, listening, animationFrameId>>

\* The call made for an element that has been replaced since: its context
\* goes on the array as it is now
StaleArrayBufferRead(d) ==
  /\ d \in detached
  /\ d.ev = "arrayBuffer"
  /\ detached' = (detached \ {d}) \cup {[d EXCEPT !.ev = "decodeAudioData"]}
  /\ audioContexts' = Append(audioContexts, NewContext(FALSE))
  /\ last' = Did("staleArrayBuffer", d.index)
  /\ UNCHANGED <<destroyed, audioWaveformData, waveformJobs, scratch,
                 videoElement, selectedVideo, selectedAudios, audioElements,
                 mutedTracks, audioEnded, trackDurations, timelineDuration,
                 timeMarkers, playheadPosition, isPlaying, currentTime, video,
                 videoEvents, listening, animationFrameId>>

\* and its waveform goes into audioWaveformData as it is now
StaleDecoded(d) ==
  /\ d \in detached
  /\ d.ev = "decodeAudioData"
  /\ detached' = detached \ {d}
  /\ \E w \in Waveforms :
       audioWaveformData' = StoreWaveform(audioWaveformData, d.index, w)
  /\ last' = Did("staleDecodeAudioData", d.index)
  /\ UNCHANGED <<destroyed, audioContexts, waveformJobs, scratch,
                 videoElement, selectedVideo, selectedAudios, audioElements,
                 mutedTracks, audioEnded, trackDurations, timelineDuration,
                 timeMarkers, playheadPosition, isPlaying, currentTime, video,
                 videoEvents, listening, animationFrameId>>

(* ------------------------------ teardown ------------------------------ *)

\* ngOnDestroy: the requested redraw is cancelled, the contexts of the
\* array are closed and the audio elements paused
ngOnDestroy ==
  /\ videoElement
  /\ ~destroyed
  /\ destroyed' = TRUE
  /\ animationFrameId' = FALSE
  /\ audioContexts' =
       [k \in 1..Len(audioContexts) |-> [audioContexts[k] EXCEPT !.open = FALSE]]
  /\ audioElements' = [k \in 1..Len(audioElements) |-> Pause(audioElements[k])]
  /\ last' = Did("ngOnDestroy", 0)
  /\ UNCHANGED <<audioWaveformData, waveformJobs, scratch, videoElement,
                 selectedVideo, selectedAudios, detached, mutedTracks,
                 audioEnded, trackDurations, timelineDuration, timeMarkers,
                 playheadPosition, isPlaying, currentTime, video, videoEvents,
                 listening>>

(* ---------------------------- user controls --------------------------- *)

\* video.play(): a paused element starts and queues play; an ended one is
\* first sent back to its start, which queues seeked
VideoAfterPlay == Play(video)
EventsAfterPlay ==
  IF video.paused
    THEN videoEvents \o <<"play">> \o (IF Ended(video) THEN <<"seeked">> ELSE << >>)
    ELSE videoEvents

\* video.pause(): a playing element stops and queues pause
VideoAfterPause == Pause(video)
EventsAfterPause ==
  IF video.paused THEN videoEvents ELSE Append(videoEvents, "pause")

togglePlayPause ==
  /\ videoElement
  /\ IF isPlaying
       THEN video' = VideoAfterPause /\ videoEvents' = EventsAfterPause
       ELSE video' = VideoAfterPlay /\ videoEvents' = EventsAfterPlay
  /\ last' = Did("togglePlayPause", 0)
  /\ UNCHANGED <<destroyed, resources, scratch, videoElement, selectedVideo, selectedAudios, audioElements,
                 detached, mutedTracks, audioEnded, trackDurations,
                 timelineDuration, timeMarkers, playheadPosition, isPlaying,
                 currentTime, listening, animationFrameId>>

\* What onSeek does to one audio element, for the scrubber at seekTime
SeekAudioOnSeek(audio, seekTime) ==
  IF OrElse(Duration(audio), 0) # 0 /\ Leq(seekTime, Duration(audio))
    THEN SetCurrentTime(audio, seekTime)
    ELSE audio

\* onSeek, for the scrubber at seekTime
onSeek(seekTime) ==
  /\ videoElement
  /\ IF video.loaded
       THEN /\ video' = SetCurrentTime(video, seekTime)
            /\ videoEvents' = Append(videoEvents, "seeked")
       ELSE /\ video' = [video EXCEPT !.dsp = seekTime]
            /\ videoEvents' = videoEvents
  /\ currentTime' = seekTime
  /\ audioElements' =
       [k \in 1..Len(audioElements) |-> SeekAudioOnSeek(audioElements[k], seekTime)]
  /\ last' = Did("onSeek", seekTime)
  /\ UNCHANGED <<destroyed, resources, scratch, videoElement, selectedVideo, selectedAudios, detached,
                 mutedTracks, audioEnded, trackDurations, timelineDuration,
                 timeMarkers, playheadPosition, isPlaying, listening,
                 animationFrameId>>

(* ------------------------- the video's listeners ---------------------- *)

\* updatePlayheadPosition, with the video at time t
updatePlayheadPosition(t) ==
  IF videoElement THEN Percent(t, timelineDuration) ELSE playheadPosition

\* The timeupdate listener, with the video at time t.  The browser fires
\* timeupdate as a playing video moves on, and in front of pause, seeked
\* and ended.
OnTimeupdate(t) ==
  IF listening
    THEN currentTime' = t /\ playheadPosition' = updatePlayheadPosition(t)
    ELSE UNCHANGED <<currentTime, playheadPosition>>

\* The timeupdate listener on one audio element: it leaves the element alone
DriftAudio(audio, muted, videoTime) == audio

\* The task at the head of the queue is taken; `op` names the listener run
Take(ev, op, arg) ==
  /\ videoEvents # << >>
  /\ Head(videoEvents) = ev
  /\ videoEvents' = Tail(videoEvents)
  /\ IF listening
       THEN last' = Did(op, arg)
       ELSE last' = Did("unheard", 0) /\ UNCHANGED <<isPlaying, audioElements, audioEnded>>

\* A slip: the play listener starting muted tracks too
PlayAudioAlsoMuted(audio, muted, rejected) ==
  LET a == IF Ended(audio) \/ audio.pos = 0 THEN SetCurrentTime(audio, 0) ELSE audio
  IN  IF rejected THEN a ELSE Play(a)

\* The play listener on one audio element; `rejected`: its play() is refused
PlayAudio(audio, muted, rejected) ==
  IF muted = TRUE
    THEN audio
    ELSE LET a == IF Ended(audio) \/ audio.pos = 0
                    THEN SetCurrentTime(audio, 0) ELSE audio
         IN  IF rejected THEN a ELSE Play(a)

\* A slip: a refusal thrown out of the loop, so that no later track starts
RefusedFrom(k, rej) == \E j \in rej : j <= k

\* Whether the play() of track k is refused, `rej` being the refused tracks:
\* each promise has its own catch
Refused(k, rej) == k \in rej

\* The tracks whose element goes from paused to playing: each fires play
Started(old, new) ==
  {k \in 1..Len(old) : old[k].paused /\ ~new[k].paused}

\* audioEnded after the listeners of the audio elements in `ks` set it to v
Flag(arr, ks, v) ==
  [k \in 1..SetMax({Len(arr)} \cup ks) |->
     IF k \in ks THEN v ELSE At(arr, k)]

OnVideoPlay ==
  /\ videoEvents # << >>
  /\ Head(videoEvents) = "play"
  /\ videoEvents' = Tail(videoEvents)
  /\ IF listening
       THEN /\ isPlaying' = TRUE
            /\ \E rej \in SUBSET {k \in 1..Len(audioElements) : At(mutedTracks, k) # TRUE} :
                 /\ audioElements' =
                      [k \in 1..Len(audioElements) |->
                         PlayAudio(audioElements[k], At(mutedTracks, k), Refused(k, rej))]
                 /\ last' = [op |-> "play", rej |-> rej,
                              arg |-> Cardinality({k \in 1..Len(audioElements) :
                                                    Ended(audioElements[k])})]
            /\ audioEnded' =
                 Flag(audioEnded, Started(audioElements, audioElements'), FALSE)
       ELSE /\ last' = Did("unheard", 0)
            /\ UNCHANGED <<isPlaying, audioElements, audioEnded>>
  /\ UNCHANGED <<destroyed, resources, scratch, videoElement, selectedVideo, selectedAudios, detached,
                 mutedTracks, trackDurations, timelineDuration, timeMarkers,
                 playheadPosition, currentTime, video, listening,
                 animationFrameId>>

\* A slip: the pause listener leaving muted tracks alone, as play does
PauseAudioUnmuted(audio, muted) == IF muted = TRUE THEN audio ELSE Pause(audio)

\* The pause listener on one audio element, whatever its mute flag
PauseAudio(audio, muted) == Pause(audio)

OnVideoPause ==
  /\ Take("pause", "pause",
          Cardinality({k \in 1..Len(audioElements) : ~audioElements[k].paused}))
  /\ OnTimeupdate(VideoCurrentTime)
  /\ listening =>
       /\ isPlaying' = FALSE
       /\ audioElements' =
            [k \in 1..Len(audioElements) |->
               PauseAudio(DriftAudio(audioElements[k], At(mutedTracks, k), VideoCurrentTime),
                          At(mutedTracks, k))]
       /\ audioEnded' = audioEnded
  /\ UNCHANGED <<destroyed, resources, scratch, videoElement, selectedVideo, selectedAudios, detached,
                 mutedTracks, trackDurations, timelineDuration, timeMarkers,
                 video, listening, animationFrameId>>

\* A slip: the ended listener pausing without rewinding
StopAudioNoRewind(audio) == Pause(audio)

\* The ended listener on one audio element
StopAudio(audio) == SetCurrentTime(Pause(audio), 0)

\* The end of the video: the browser fires timeupdate, pauses the video and
\* fires pause if it is still playing, and fires ended
OnVideoEnded ==
  /\ Take("ended", "ended",
          Cardinality({k \in 1..Len(audioElements) :
                         ~audioElements[k].paused \/ audioElements[k].pos # 0}))
  /\ video' = Pause(video)
  /\ OnTimeupdate(VideoCurrentTime)
  /\ listening =>
       /\ isPlaying' = FALSE
       /\ audioElements' =
            [k \in 1..Len(audioElements) |->
               LET a == DriftAudio(audioElements[k], At(mutedTracks, k), VideoCurrentTime)
               IN  StopAudio(IF video.paused THEN a ELSE PauseAudio(a, At(mutedTracks, k)))]
       /\ audioEnded' = audioEnded
  /\ UNCHANGED <<destroyed, resources, scratch, videoElement, selectedVideo, selectedAudios, detached,
                 mutedTracks, trackDurations, timelineDuration, timeMarkers,
                 listening, animationFrameId>>

\* A slip: the seeked listener clamping a short track to its end
SeekAudioClamped(audio, targetTime) ==
  IF OrElse(Duration(audio), 0) # 0 THEN SetCurrentTime(audio, targetTime) ELSE audio

\* The seeked listener on one audio element, for the video at targetTime
SeekAudio(audio, targetTime) ==
  IF OrElse(Duration(audio), 0) # 0 /\ Leq(targetTime, Duration(audio))
    THEN SetCurrentTime(audio, targetTime)
    ELSE IF Gt(targetTime, Duration(audio))
           THEN Pause(audio)
           ELSE audio

OnVideoSeeked ==
  /\ Take("seeked", "seeked", VideoCurrentTime)
  /\ OnTimeupdate(VideoCurrentTime)
  /\ listening =>
       /\ audioElements' =
            [k \in 1..Len(audioElements) |->
               SeekAudio(DriftAudio(audioElements[k], At(mutedTracks, k), VideoCurrentTime),
                         VideoCurrentTime)]
       /\ UNCHANGED <<isPlaying, audioEnded>>
  /\ UNCHANGED <<destroyed, resources, scratch, videoElement, selectedVideo, selectedAudios, detached,
                 mutedTracks, trackDurations, timelineDuration, timeMarkers,
                 video, listening, animationFrameId>>

\* One turn of the redraw loop of startPlayheadAnimation
AnimationFrame ==
  /\ animationFrameId
  /\ playheadPosition' = updatePlayheadPosition(VideoCurrentTime)
  /\ last' = Did("animate", 0)
  /\ UNCHANGED <<destroyed, resources, scratch, videoElement, selectedVideo, selectedAudios, audioElements,
                 detached, mutedTracks, audioEnded, trackDurations,
                 timelineDuration, timeMarkers, isPlaying, currentTime, video,
                 videoEvents, listening, animationFrameId>>

(* ------------------------------ playback ------------------------------ *)

\* The video plays on and the browser fires timeupdate
OnVideoTimeupdate ==
  /\ video.loaded
  /\ ~video.paused
  /\ ~Ended(video)
  /\ video' = [video EXCEPT !.pos = Advance(video)]
  /\ OnTimeupdate(video'.pos)
  /\ IF listening
       THEN /\ audioElements' =
                 [k \in 1..Len(audioElements) |->
                    DriftAudio(audioElements[k], At(mutedTracks, k), video'.pos)]
            /\ last' = Did("timeupdate", video'.pos)
       ELSE /\ audioElements' = audioElements
            /\ last' = Did("unheard", 0)
  /\ UNCHANGED <<destroyed, resources, scratch, videoElement, selectedVideo, selectedAudios, detached,
                 mutedTracks, audioEnded, trackDurations, timelineDuration,
                 timeMarkers, isPlaying, videoEvents, listening,
                 animationFrameId>>

\* The video is at its end, playing: the browser queues the task that ends it
VideoAtEnd ==
  /\ video.loaded
  /\ ~video.paused
  /\ Ended(video)
  /\ \A k \in 1..Len(videoEvents) : videoEvents[k] # "ended"
  /\ videoEvents' = Append(videoEvents, "ended")
  /\ last' = Did("videoAtEnd", 0)
  /\ UNCHANGED <<destroyed, resources, scratch, videoElement, selectedVideo, selectedAudios, audioElements,
                 detached, mutedTracks, audioEnded, trackDurations,
                 timelineDuration, timeMarkers, playheadPosition, isPlaying,
                 currentTime, video, listening, animationFrameId>>

\* An audio element plays on; at its end the browser pauses it and its
\* ended listener sets audioEnded.
AudioProgress(k) ==
  /\ k \in 1..Len(audioElements)
  /\ audioElements[k].loaded
  /\ ~audioElements[k].paused
  /\ IF Ended(audioElements[k])
       THEN /\ audioElements' = [audioElements EXCEPT ![k] = Pause(@)]
            /\ audioEnded' = Flag(audioEnded, {k}, TRUE)
       ELSE /\ audioElements' = [audioElements EXCEPT ![k].pos = Advance(audioElements[k])]
            /\ audioEnded' = audioEnded
  /\ last' = Did("audioProgress", k)
  /\ UNCHANGED <<destroyed, resources, scratch, videoElement, selectedVideo, selectedAudios, detached,
                 mutedTracks, trackDurations, timelineDuration, timeMarkers,
                 playheadPosition, isPlaying, currentTime, video, videoEvents,
                 listening, animationFrameId>>

(* --------------------------- specification ---------------------------- *)

\* The bounds on what is outstanding at a time: the user acts again only
\* when the video's queue has room, and replaces the audio tracks only when
\* at most `n` completions of replaced elements are outstanding.
Room == Len(videoEvents') <= MaxPending
Outstanding(n) == Cardinality(detached') <= n

\* The steps of the browser and of the listeners
Events ==
  \/ ngAfterViewInit
  \/ VideoLoadedMetadata /\ Room
  \/ \E k \in 1..Len(audioElements) : AudioLoadedMetadata(k)
  \/ OnVideoPlay
  \/ OnVideoPause
  \/ OnVideoEnded
  \/ OnVideoSeeked
  \/ OnVideoTimeupdate
  \/ AnimationFrame
  \/ VideoAtEnd /\ Room
  \/ \E k \in 1..Len(audioElements) : AudioProgress(k)

\* What the user does, with selections from `selections` and the scrubber
\* set to one of `times`, all within the 60 seconds every timeline has
User(selections, times, n) ==
  \/ \E f \in VideoFiles : onVideoSelected(f)
  \/ \E files \in selections : onAudioSelected(files) /\ Outstanding(n)
  \/ \E i \in 1..Len(selectedAudios) : removeAudioTrack(i) /\ Outstanding(n)
  \/ \E i \in 1..Len(selectedAudios) : toggleAudioMute(i)
  \/ togglePlayPause /\ Room
  \/ \E t \in times : onSeek(t) /\ Room

\* Up to two audio tracks, replaced once their metadata is loaded
Next == Events \/ User(AudioSelections, SeekTimes, 0)

Spec == Init /\ [][Next]_vars

\* One audio track, replaced at any time: the replaced element's
\* loadedmetadata may still arrive
NextStale ==
  \/ Events
  \/ User(SingleSelections, ManySeekTimes, MaxDetached)
  \/ \E d \in detached : StaleLoadedMetadata(d)

SpecStale == Init /\ [][NextStale]_vars

\* Selecting, extracting waveforms and tearing down, with one audio track
\* and nothing played: the editor is destroyed at any time, and what was
\* started before still completes after
NextTeardown ==
  \/ ngAfterViewInit
  \/ \E f \in VideoFiles : ~destroyed /\ onVideoSelected(f)
  \/ \E files \in SingleSelections :
       ~destroyed /\ onAudioSelected(files) /\ Outstanding(MaxDetached)
  \/ \E i \in 1..Len(selectedAudios) :
       ~destroyed /\ removeAudioTrack(i) /\ Outstanding(MaxDetached)
  \/ VideoLoadedMetadata
  \/ \E k \in 1..Len(audioElements) : AudioLoadedMetadata(k)
  \/ \E k \in 1..Len(audioElements) : ArrayBufferRead(k)
  \/ \E k \in 1..Len(audioElements) : Decoded(k)
  \/ \E d \in detached : StaleLoadedMetadata(d)
  \/ \E d \in detached : StaleArrayBufferRead(d)
  \/ \E d \in detached : StaleDecoded(d)
  \/ AnimationFrame
  \/ ngOnDestroy

SpecTeardown == Init /\ [][NextTeardown]_vars

\* formatTime on its own, tried on one number of seconds
FormatInputs == {NaN} \cup (-130..-3) \cup (0..130)

InitFormat == Constructed /\ timeInput \in FormatInputs /\ timeText = ""

ApplyFormatTime ==
  /\ timeText = ""
  /\ timeText' = formatTime(timeInput)
  /\ UNCHANGED <<timeInput, destroyed, resources, videoElement, selectedVideo,
                 selectedAudios, audioElements, detached, mutedTracks,
                 audioEnded, trackDurations, timelineDuration, timeMarkers,
                 playheadPosition, isPlaying, currentTime, video, videoEvents,
                 listening, animationFrameId, last>>

SpecFormat == InitFormat /\ [][ApplyFormatTime]_vars

(* ------------------------------- claims ------------------------------- *)

Tracks == 1..Len(audioElements)
Muted(k) == At(mutedTracks, k) = TRUE
Abs(x) == IF x < 0 THEN 0 - x ELSE x

\* The durations that have resolved, of the tracks now loaded
ResolvedDurations ==
  (IF selectedVideo # None /\ video.loaded THEN {FileDuration(video.file)} ELSE {})
    \cup {FileDuration(audioElements[k].file) : k \in {j \in Tracks : audioElements[j].loaded}}

\* C1: once ngAfterViewInit has run, timelineDuration is the largest of 60
\* and the resolved durations of the tracks now loaded (60 when none has
\* resolved), whatever selections, removals and metadata events came before.
C1_TimelineIsMaxOfResolved ==
  videoElement => timelineDuration = SetMax({60} \cup ResolvedDurations)

\* C2: the per-track arrays stay aligned with the track list: trackDurations
\* holds the video's slot and one slot per audio track, and mutedTracks and
\* audioEnded one entry per audio track.  Stated from the first selection
\* on: before it trackDurations is still the empty array it starts as.
C2_ArraysAligned ==
  trackDurations # << >> =>
    /\ Len(trackDurations) = Len(selectedAudios) + 1
    /\ Len(mutedTracks) = Len(selectedAudios)
    /\ Len(audioEnded) = Len(selectedAudios)

\* C3: removeAudioTrack(i) keeps each remaining track's file, mute flag,
\* ended flag and duration together: the tracks before i keep theirs, each
\* track from i on has those of the track that followed it, and the video's
\* duration slot is unchanged.
C3_RemoveKeepsTracksTogether ==
  [][last'.op = "removeAudioTrack" =>
       /\ Len(selectedAudios') = Len(selectedAudios) - 1
       /\ At(trackDurations', 1) = At(trackDurations, 1)
       /\ \A j \in 1..Len(selectedAudios') :
            LET from == IF j < last'.arg THEN j ELSE j + 1
            IN  /\ selectedAudios'[j] = selectedAudios[from]
                /\ At(mutedTracks', j) = At(mutedTracks, from)
                /\ At(audioEnded', j) = At(audioEnded, from)
                /\ At(trackDurations', j + 1) = At(trackDurations, from + 1)]_vars

\* C3's case: the first of two tracks was removed, and the track that
\* followed it is now track 1 with its mute flag, ended flag and duration.
C3_Witness ==
  /\ last.op = "removeAudioTrack" /\ last.arg = 1
  /\ selectedAudios = <<"a2">>
  /\ mutedTracks = <<TRUE>> /\ audioEnded = <<TRUE>>
  /\ trackDurations = <<FileDuration("v1"), FileDuration("a2")>>

\* C4: when seeked is handled with the video at t, every audio track of
\* known duration >= t is at t afterwards, and every audio track of known
\* duration < t is paused where it was, not at t.
C4_SeekedSeeksOrPauses ==
  [][last'.op = "seeked" =>
       \A k \in Tracks :
         LET a == audioElements[k]
             b == audioElements'[k]
             t == VideoCurrentTime
         IN  /\ (a.loaded /\ t <= FileDuration(a.file)) => b.pos = t
             /\ (a.loaded /\ FileDuration(a.file) < t) =>
                  b.paused /\ b.pos = a.pos /\ b.pos # t]_vars

\* C4's case: during playback seeked was handled with the video past the
\* end of one unmuted track, now paused short of its end, and inside the
\* other, now at the video's time.
C4_Witness ==
  /\ last.op = "seeked" /\ last.arg > FileDuration("a1")
  /\ isPlaying
  /\ selectedAudios = <<"a1", "a2">>
  /\ ~Muted(1) /\ audioElements[1].loaded /\ audioElements[1].paused
  /\ audioElements[1].pos < FileDuration("a1")
  /\ audioElements[2].pos = last.arg /\ ~audioElements[2].paused

C6_TimeupdateResnaps ==
  last.op = "timeupdate" =>
    /\ currentTime = VideoCurrentTime
    /\ playheadPosition = Percent(VideoCurrentTime, timelineDuration)
    /\ \A k \in Tracks :
         (/\ ~Muted(k)
          /\ audioElements[k].loaded
          /\ ~audioElements[k].paused
          /\ FileDuration(audioElements[k].file) >= video.pos)
           => 10 * Abs(audioElements[k].pos - video.pos) <= 1

\* Nothing plays: isPlaying is false and every audio track is paused.
Quiet == ~isPlaying /\ \A k \in Tracks : audioElements[k].paused

\* C7: once pause is handled, isPlaying is false and every audio track is
\* paused, and that stays so through every step but the play listener.
C7_PausedUntilPlay ==
  [][/\ last'.op = "pause" => Quiet'
     /\ (Quiet /\ last'.op # "play") => Quiet']_vars

\* C7's case: pause was handled while a muted and an unmuted track played.
C7_Witness ==
  /\ last.op = "pause" /\ last.arg = 2
  /\ Muted(1) /\ ~Muted(2)
  /\ Quiet

\* C8: once ended is handled, isPlaying is false and every audio track is
\* paused at 0.
C8_EndedStopsAll ==
  last.op = "ended" =>
    /\ ~isPlaying
    /\ \A k \in Tracks : audioElements[k].paused /\ audioElements[k].pos = 0

\* C8's case: ended was handled with two tracks away from a paused 0, a
\* muted one among them.
C8_Witness ==
  /\ last.op = "ended" /\ last.arg = 2
  /\ Muted(1) /\ ~Muted(2)
  /\ \A k \in Tracks : audioElements[k].paused /\ audioElements[k].pos = 0

\* C9: for every track and every scrubber time t within the timeline, onSeek
\* leaves the track where the seeked listener would with the video at t:
\* the same position, and playing or paused alike.
C9_OnSeekAsSeeked ==
  \A k \in Tracks : \A t \in SeekTimes :
    Leq(t, timelineDuration) =>
      SeekAudioOnSeek(audioElements[k], t) = SeekAudio(audioElements[k], t)

\* C10: with the video loaded and none of its events still queued, isPlaying
\* is true exactly when the video is playing.
C10_IsPlayingMirrorsVideo ==
  (video.loaded /\ videoEvents = << >>) => (isPlaying <=> ~video.paused)

\* The ticks of a timeline of d seconds: their spacing and their number
TickInterval(d) == IF d = NaN THEN NaN ELSE SetMax({5, (d + 11) \div 12})
TickCount(d) == IF d = NaN THEN NaN ELSE (d \div TickInterval(d)) + 1

\* C14: once ngAfterViewInit has run, timeMarkers holds the labels of
\* 0, interval, 2 * interval, ... up to timelineDuration, with interval the
\* larger of 5 and ceil(timelineDuration / 12): floor(timelineDuration /
\* interval) + 1 labels, the last of a time within the timeline.
C14_MarkersFollowTimeline ==
  videoElement =>
    /\ Len(timeMarkers) = TickCount(timelineDuration)
    /\ \A k \in 1..Len(timeMarkers) :
         /\ timeMarkers[k] = formatTime((k - 1) * TickInterval(timelineDuration))
         /\ (k - 1) * TickInterval(timelineDuration) <= timelineDuration

\* C15: playheadPosition is a number from 0 to 100.
C15_PlayheadInRange ==
  /\ playheadPosition[2] # 0
  /\ 0 <= playheadPosition[1]
  /\ playheadPosition[1] <= 100 * playheadPosition[2]

\* C17: when play is handled and the play() of some tracks is refused,
\* isPlaying is true, the video is as it was, every other unmuted track is
\* playing, and a refused track that was paused stays paused.
C17_RefusalStaysLocal ==
  [][last'.op = "play" =>
       /\ isPlaying'
       /\ video' = video
       /\ \A k \in Tracks :
            ~Muted(k) =>
              IF k \in last'.rej
                THEN audioElements'[k].paused = audioElements[k].paused
                ELSE ~audioElements'[k].paused]_vars

\* C17's case: play was handled with the first track's play() refused: the
\* video plays on, the first track is paused and the second is playing.
C17_Witness ==
  /\ last.op = "play" /\ last.rej = {1}
  /\ isPlaying /\ ~video.paused
  /\ Len(audioElements) = 2
  /\ ~Muted(1) /\ audioElements[1].paused
  /\ ~Muted(2) /\ ~audioElements[2].paused

\* C18: every audio element's muted attribute equals the track's entry of
\* mutedTracks.
C18_MutedMirrorsRegistry ==
  \A k \in Tracks : audioElements[k].muted = Muted(k)

\* A completion of a replaced audio element runs in this step: it is no
\* longer among those to come.
StaleStep == ~(detached \subseteq detached')

\* C19: a completion that belongs to a replaced audio element (its
\* loadedmetadata, or a step of its waveform extraction) changes none of
\* trackDurations, audioEnded, audioWaveformData and timelineDuration.
C19_StaleCompletionsIgnored ==
  [][StaleStep =>
       UNCHANGED <<trackDurations, audioEnded, audioWaveformData,
                   timelineDuration>>]_vars

\* During playback every unmuted track that has not ended, and is long
\* enough to be at the video's time, is playing.
Coherent ==
  isPlaying =>
    \A k \in Tracks :
      (/\ ~Muted(k)
       /\ audioElements[k].loaded
       /\ ~Ended(audioElements[k])
       /\ FileDuration(audioElements[k].file) >= VideoCurrentTime)
        => ~audioElements[k].paused

\* A step of the play listener with no play() refused, of the pause or
\* seeked listener, of removeAudioTrack or of toggleAudioMute.
ListedStep ==
  \/ last'.op \in {"pause", "seeked", "removeAudioTrack"}
  \/ last'.op = "play" /\ last'.rej = {}
  \/ mutedTracks' # mutedTracks /\ selectedAudios' = selectedAudios

\* C20: play, pause, seeked, toggleAudioMute and removeAudioTrack each keep
\* every unmuted, unended, long enough track playing while isPlaying is true.
C20_PlayingTracksStayPlaying ==
  [][(Coherent /\ ListedStep) => Coherent']_vars

\* C11: every AudioContext that is open was made for an audio element of
\* the audio set as it is now, in an editor that is not destroyed: those of
\* replaced tracks and of a destroyed editor are closed, whenever the
\* extraction that made them got as far as making them.
C11_NoContextOutlivesItsTrack ==
  \A k \in 1..Len(audioContexts) :
    audioContexts[k].open => audioContexts[k].current

\* C12: once ngOnDestroy has run, no redraw callback is requested.
C12_NoRedrawAfterDestroy ==
  destroyed => ~animationFrameId

\* What the formatting rule gives for t seconds
TwoDigits(n) == IF n < 10 THEN "0" \o ToString(n) ELSE ToString(n)
FormatRule(t) ==
  IF t = NaN \/ t <= 0
    THEN "0:00"
    ELSE ToString(t \div 60) \o ":" \o TwoDigits(t % 60)

\* C13: formatTime(t) is floor(t / 60), a colon and floor(t) mod 60 on two
\* digits for every positive t, and "0:00" for 0, NaN and every negative t.
C13_FormatTimeRule ==
  timeText # "" => timeText = FormatRule(timeInput)

\* C16: every waveform stored in audioWaveformData has exactly 200 values,
\* each a number from 0 to 1.
C16_WaveformIs200InUnitRange ==
  \A k \in 1..Len(audioWaveformData) :
    audioWaveformData[k] # << >> =>
      /\ Len(audioWaveformData[k]) = 200
      /\ \A i \in 1..Len(audioWaveformData[k]) :
           LET v == audioWaveformData[k][i]
           IN  v[2] # 0 /\ 0 <= v[1] /\ v[1] <= v[2]

=============================================================================
